---- MODULE Spec2Model ----
(***************************************************************************)
(* Model of the motion detector of package detector (GoAway).              *)
(*                                                                         *)
(* One Detector value, as NewMotionDetector leaves it, is shared by three  *)
(* execution contexts: the goroutine that runs Start (the frame loop), a   *)
(* goroutine that calls Close, and a goroutine that calls Status() and     *)
(* SnapshotJPG().  Every goroutine started by `go d.onDetect()` is counted *)
(* in `running` until it returns.  The external collaborators (camera,     *)
(* window, contour extraction) are nondeterministic: each camera read      *)
(* yields any (ok, empty) pair, each frame any short list of region areas, *)
(* each key poll any key code, each release succeeds or fails.             *)
(***************************************************************************)
EXTENDS Integers, Sequences, FiniteSets

\* ------------------------------------------------------------------ bounds
\* Camera reads one Start call performs before the model stops exploring.
MaxReads == 3
\* Regions FindContours reports for one frame, at most.
MaxContours == 2
\* Email example: onDetect goroutines that can be in flight at once.
MaxMailCallbacks == 2
\* Email example: seconds of wall-clock time explored.
MaxMailTime == 30

\* ------------------------------------------------------- program constants
escapeKey == 27
NotSensitive == 9000
DefaultSensitive == 6000
VerySensitive == 3000
\* Email example: seconds between two emails (15 * time.Second).
MailCooldown == 15

DetectorStatusReady == "Ready"
DetectorStatusMotionDetected == "Motion Detected"
DetectorStatusClosed == "Closed"

statusReadyColor == <<255, 255, 255, 0>>
statusMotionDetectedColor == <<255, 0, 255, 0>>

\* ------------------------------------------------------------ input domains
\* Region areas around the threshold: below, equal, above.
Areas == {NotSensitive - 1, NotSensitive, NotSensitive + 1}
\* WaitKey(1): -1 when no key was pressed, else the key code.
NoKey == 0 - 1
Keys == {NoKey, escapeKey, 65}
\* What FindContours can report for a frame: the areas of its regions.
ContourSeqs == UNION {[1..n -> Areas] : n \in 0..MaxContours}
\* camera.Read: ok or not, and whether the matrix is empty afterwards.
ReadResults == [ok : BOOLEAN, empty : BOOLEAN]
\* Value of lastRead before the first read.
NoRead == [ok |-> TRUE, empty |-> FALSE, none |-> TRUE]

\* The resources Close releases, in the order of its statements.
Resources ==
    <<"camera", "window", "baseImgMatrix", "diffMatrix", "threshMatrix", "bgSubtractor">>
ResourceSet == {Resources[i] : i \in 1..Len(Resources)}

VARIABLES
    status,              \* d.status
    statusColor,         \* d.statusColor
    minDiffContourArea,  \* d.minDiffContourArea
    onDetect,            \* d.onDetect # nil
    startPc,             \* where the goroutine running Start is
    lastRead,            \* result of the latest camera.Read of Start
    emptyRun,            \* empty frames in a row in this waitForNextFrame call
    reads,               \* camera reads performed by Start
    frames,              \* non-empty frames waitForNextFrame returned
    applied,             \* bgSubtractor.Apply calls
    contours,            \* areas of the regions of the frame being processed
    idx,                 \* index of the next region of the range loop
    dispatched,          \* goroutines started for the current frame
    running,             \* onDetect goroutines that have not returned
    polls,               \* WaitKey calls
    lastKey,             \* key code of the latest WaitKey
    closePc,             \* where the goroutine running Close is
    attempts,            \* per resource, releases attempted by Close
    logged,              \* log.Printf calls of Close (releases that failed)
    readerPc,            \* accessor the third goroutine is inside of
    appliedId,           \* number of the read whose frame Apply took last
    device,              \* what the frame source delivers
    keyboard,            \* what the key poll can see
    policy,              \* inputs and results of a comparison of two thresholds
    mailNow,             \* email example: the wall clock, in seconds
    lastMail,            \* email example: the package variable lastMail
    mailPc,              \* email example: where each onDetect goroutine is
    mails                \* email example: the times at which an email was sent

vars == <<status, statusColor, minDiffContourArea, onDetect, startPc, lastRead,
          emptyRun, reads, frames, applied, contours, idx, dispatched, running,
          polls, lastKey, closePc, attempts, logged, readerPc, appliedId,
          device, keyboard, policy, mailNow, lastMail, mailPc, mails>>

startVars == <<startPc, lastRead, emptyRun, reads, frames, applied, contours, idx,
               dispatched, polls, lastKey, appliedId>>
closeVars == <<closePc, attempts, logged>>
readerVars == <<readerPc>>
fieldVars == <<minDiffContourArea, onDetect>>
envVars == <<device, keyboard>>
mailVars == <<mailNow, lastMail, mailPc, mails>>
auxVars == <<envVars, policy, mailVars>>

\* --------------------------------------------------------------- NewMotionDetector
NewMotionDetectorThresholdDefault == DefaultSensitive

\* NewMotionDetector: `minDiffContourArea: NotSensitive`.
NewMotionDetectorThreshold == NotSensitive

\* The Detector as NewMotionDetector returns it, nothing called yet.
InitDetector ==
    /\ status = DetectorStatusReady
    /\ statusColor = statusReadyColor
    /\ minDiffContourArea = NewMotionDetectorThreshold
    /\ startPc = "idle"
    /\ lastRead = NoRead
    /\ emptyRun = 0
    /\ reads = 0
    /\ frames = 0
    /\ applied = 0
    /\ appliedId = 0
    /\ contours = <<>>
    /\ idx = 1
    /\ dispatched = 0
    /\ running = 0
    /\ polls = 0
    /\ lastKey = NoKey
    /\ closePc = "idle"
    /\ attempts = [r \in ResourceSet |-> 0]
    /\ logged = 0
    /\ readerPc = "idle"

\* No threshold comparison under way.
NoPolicy == [none |-> TRUE]

\* The email example's package state at program start:
\* lastMail = time.Now().Add(-15 * time.Second), no callback started.
InitMail ==
    /\ mailNow = 0
    /\ lastMail = 0 - MailCooldown
    /\ mailPc = [i \in 1..MaxMailCallbacks |-> "none"]
    /\ mails = <<>>

Init ==
    /\ InitDetector
    /\ onDetect \in BOOLEAN
    /\ device = "any"
    /\ keyboard = "any"
    /\ policy = NoPolicy
    /\ InitMail

\* ------------------------------------------------------------ pure helpers
\* waitForNextFrame: what one camera read leads to.
FrameOutcomeEmptyIsError(ok, empty) ==
    IF ~ok \/ empty THEN "error" ELSE "frame"

FrameOutcomeEmptyFirst(ok, empty) ==
    IF ~empty THEN "frame"
    ELSE IF ~ok THEN "error"
    ELSE "retry"

FrameOutcomeNoEmptyTest(ok, empty) ==
    IF ~ok THEN "error" ELSE "frame"

FrameOutcome(ok, empty) ==
    IF ~ok THEN "error"
    ELSE IF ~empty THEN "frame"
    ELSE "retry"

\* findAndDrawContours: `if area < d.minDiffContourArea { continue }`.
QualifiesStrict(area, min) == ~(area <= min)

QualifiesInverted(area, min) == ~(area > min)

Qualifies(area, min) == ~(area < min)

\* findAndDrawContours: `if d.onDetect != nil { go d.onDetect() }`, as the
\* number of goroutines started for the frame so far.
GoOnDetectOncePerFrame(cb, n) == IF cb /\ n = 0 THEN 1 ELSE n

GoOnDetect(cb, n) == IF cb THEN n + 1 ELSE n

\* The go statement starts the callback on a goroutine of its own: the loop
\* does not wait for the r callbacks that have not returned.
LoopAwaitsCall(r) == r > 0

LoopAwaits(r) == FALSE

\* displayResult: `return d.window.WaitKey(1) == escapeKey`.
displayResultAnyKey(key) == key # NoKey

displayResultWrongKey(key) == key = 65

displayResult(key) == key = escapeKey

\* Close: the statement that follows the release of Resources[i]; a failed
\* release is logged and Close goes on.
AfterReleaseReturnOnError(i, err) ==
    IF err \/ i = Len(Resources) THEN "done" ELSE Resources[i + 1]

AfterRelease(i, err) ==
    IF i = Len(Resources) THEN "done" ELSE Resources[i + 1]

RECURSIVE QualifyingCount(_, _)
QualifyingCount(cs, min) ==
    IF cs = <<>> THEN 0
    ELSE (IF Qualifies(Head(cs), min) THEN 1 ELSE 0) + QualifyingCount(Tail(cs), min)

IndexOf(r) == CHOOSE i \in 1..Len(Resources) : Resources[i] = r

\* ------------------------------------------------------------- environment
\* The end-to-end scenario: seven non-empty frames, the fifth with one region
\* of area 7000, then the source reports closure.
E2E == [frames |-> 7, motionFrame |-> 5, area |-> 7000]

\* camera.Read results the frame source can give, after n non-empty frames.
ReadResultsOf(dev, n) ==
    CASE dev = "frames" -> {[ok |-> TRUE, empty |-> FALSE]}
      [] dev = "empties" -> {[ok |-> TRUE, empty |-> TRUE]}
      [] dev = "closed" -> {r \in ReadResults : ~r.ok}
      [] dev = "e2e" -> IF n < E2E.frames
                        THEN {[ok |-> TRUE, empty |-> FALSE]}
                        ELSE {r \in ReadResults : ~r.ok}
      [] OTHER -> ReadResults

\* Camera reads explored for one Start call.
ReadLimit(dev) == IF dev = "e2e" THEN E2E.frames + 1 ELSE MaxReads

\* gocv.FindContours results for the n-th non-empty frame.
ContoursOf(dev, n) ==
    IF dev = "e2e"
    THEN {IF n = E2E.motionFrame THEN <<E2E.area>> ELSE <<>>}
    ELSE ContourSeqs

\* WaitKey results the keyboard can give.
KeysOf(kb) ==
    CASE kb = "escape" -> {escapeKey}
      [] kb = "quiet" -> Keys \ {escapeKey}
      [] OTHER -> Keys

\* ------------------------------------------------------------------- Start
LoopPcs ==
    {"read", "set_ready", "prepare", "threshold", "dilate", "find", "contour", "display"}

StartCall ==
    /\ startPc = "idle"
    /\ startPc' = "read"
    /\ UNCHANGED <<auxVars, status, statusColor, fieldVars, lastRead, emptyRun, reads,
                   frames, applied, contours, idx, dispatched, running, polls, lastKey,
                   appliedId, closeVars, readerVars>>

\* waitForNextFrame, one iteration of its loop up to the Empty() test.
ReadFrame ==
    /\ startPc = "read"
    /\ reads < ReadLimit(device)
    /\ ~LoopAwaits(running)
    /\ \E r \in ReadResultsOf(device, frames) :
        /\ lastRead' = r
        /\ reads' = reads + 1
        /\ LET out == FrameOutcome(r.ok, r.empty) IN
            /\ startPc' = CASE out = "error" -> "ret_err"
                            [] out = "frame" -> "set_ready"
                            [] OTHER -> "read"
            /\ emptyRun' = IF out = "retry" THEN emptyRun + 1 ELSE 0
            /\ frames' = IF out = "frame" THEN frames + 1 ELSE frames
    /\ UNCHANGED <<auxVars, status, statusColor, fieldVars, applied, contours, idx,
                   dispatched, running, polls, lastKey, appliedId, closeVars, readerVars>>

\* A read of the camera after Close has released it uses a freed capture
\* handle: besides any result, the process may die.
ReadFrameCrash ==
    /\ startPc = "read"
    /\ reads < ReadLimit(device)
    /\ ~LoopAwaits(running)
    /\ attempts["camera"] > 0
    /\ startPc' = "crashed"
    /\ UNCHANGED <<auxVars, status, statusColor, fieldVars, lastRead, emptyRun, reads,
                   frames, applied, contours, idx, dispatched, running, polls, lastKey,
                   appliedId, closeVars, readerVars>>

\* waitForNextFrame: the status assigned once a non-empty frame was read,
\* whatever the status st of the previous cycle.
StatusAfterFrame(st) == DetectorStatusReady

\* waitForNextFrame: d.status, d.statusColor = DetectorStatusReady, statusReadyColor
SetReady ==
    /\ startPc = "set_ready"
    /\ ~LoopAwaits(running)
    /\ status' = StatusAfterFrame(status)
    /\ statusColor' = statusReadyColor
    /\ startPc' = "prepare"
    /\ UNCHANGED <<auxVars, fieldVars, lastRead, emptyRun, reads, frames, applied,
                   contours, idx, dispatched, running, polls, lastKey, appliedId,
                   closeVars, readerVars>>

\* prepareCurrentFrame: d.bgSubtractor.Apply(d.baseImgMatrix, &d.diffMatrix).
\* The frame in d.baseImgMatrix is the one the latest read delivered.
PrepareApply ==
    /\ startPc = "prepare"
    /\ ~LoopAwaits(running)
    /\ applied' = applied + 1
    /\ appliedId' = reads
    /\ startPc' = "threshold"
    /\ UNCHANGED <<auxVars, status, statusColor, fieldVars, lastRead, emptyRun, reads,
                   frames, contours, idx, dispatched, running, polls, lastKey, closeVars,
                   readerVars>>

\* prepareCurrentFrame: gocv.Threshold(d.diffMatrix, &d.threshMatrix, ...).
PrepareThreshold ==
    /\ startPc = "threshold"
    /\ ~LoopAwaits(running)
    /\ startPc' = "dilate"
    /\ UNCHANGED <<auxVars, status, statusColor, fieldVars, lastRead, emptyRun, reads,
                   frames, applied, contours, idx, dispatched, running, polls, lastKey,
                   appliedId, closeVars, readerVars>>

\* prepareCurrentFrame: gocv.Dilate(d.threshMatrix, &d.threshMatrix, kernel).
PrepareDilate ==
    /\ startPc = "dilate"
    /\ ~LoopAwaits(running)
    /\ startPc' = "find"
    /\ UNCHANGED <<auxVars, status, statusColor, fieldVars, lastRead, emptyRun, reads,
                   frames, applied, contours, idx, dispatched, running, polls, lastKey,
                   appliedId, closeVars, readerVars>>

\* findAndDrawContours: gocv.FindContours and the start of the range loop.
FindContours ==
    /\ startPc = "find"
    /\ ~LoopAwaits(running)
    /\ \E cs \in ContoursOf(device, frames) :
        /\ contours' = cs
        /\ startPc' = IF Len(cs) = 0 THEN "display" ELSE "contour"
    /\ UNCHANGED <<auxVars, status, statusColor, fieldVars, lastRead, emptyRun, reads,
                   frames, applied, idx, dispatched, running, polls, lastKey, appliedId,
                   closeVars, readerVars>>

\* findAndDrawContours: the body of the range loop for region idx.
Contour ==
    /\ startPc = "contour"
    /\ idx <= Len(contours)
    /\ ~LoopAwaits(running)
    /\ IF Qualifies(contours[idx], minDiffContourArea)
       THEN /\ status' = DetectorStatusMotionDetected
            /\ statusColor' = statusMotionDetectedColor
            /\ dispatched' = GoOnDetect(onDetect, dispatched)
            /\ running' = running + (dispatched' - dispatched)
       ELSE UNCHANGED <<status, statusColor, dispatched, running>>
    /\ idx' = idx + 1
    /\ startPc' = IF idx = Len(contours) THEN "display" ELSE "contour"
    /\ UNCHANGED <<auxVars, fieldVars, lastRead, emptyRun, reads, frames, applied,
                   contours, polls, lastKey, appliedId, closeVars, readerVars>>

\* displayResult and the test of its result in Start.
Display ==
    /\ startPc = "display"
    /\ ~LoopAwaits(running)
    /\ \E key \in KeysOf(keyboard) :
        /\ lastKey' = key
        /\ startPc' = IF displayResult(key) THEN "ret_nil" ELSE "read"
    /\ polls' = polls + 1
    /\ contours' = <<>>
    /\ idx' = 1
    /\ dispatched' = 0
    /\ UNCHANGED <<auxVars, status, statusColor, fieldVars, lastRead, emptyRun, reads,
                   frames, applied, running, appliedId, closeVars, readerVars>>

StartStep ==
    \/ ReadFrame
    \/ ReadFrameCrash
    \/ SetReady
    \/ PrepareApply
    \/ PrepareThreshold
    \/ PrepareDilate
    \/ FindContours
    \/ Contour
    \/ Display

\* An onDetect goroutine returns.
OnDetectReturn ==
    /\ running > 0
    /\ running' = running - 1
    /\ UNCHANGED <<auxVars, status, statusColor, fieldVars, startVars, closeVars, readerVars>>

\* ------------------------------------------------------------------- Close
CloseCall ==
    /\ closePc = "idle"
    /\ closePc' = "status"
    /\ UNCHANGED <<auxVars, status, statusColor, fieldVars, startVars, running, attempts, logged,
                   readerVars>>

\* d.status = DetectorStatusClosed
CloseSetStatus ==
    /\ closePc = "status"
    /\ status' = DetectorStatusClosed
    /\ closePc' = Resources[1]
    /\ UNCHANGED <<auxVars, statusColor, fieldVars, startVars, running, attempts, logged,
                   readerVars>>

\* if err := d.<resource>.Close(); err != nil { log.Printf(...) }
CloseRelease ==
    /\ closePc \in ResourceSet
    /\ \E err \in BOOLEAN :
        /\ attempts' = [attempts EXCEPT ![closePc] = @ + 1]
        /\ logged' = IF err THEN logged + 1 ELSE logged
        /\ closePc' = AfterRelease(IndexOf(closePc), err)
    /\ UNCHANGED <<auxVars, status, statusColor, fieldVars, startVars, running, readerVars>>

\* ------------------------------------------------------ Status, SnapshotJPG
StatusCall ==
    /\ readerPc = "idle"
    /\ readerPc' = "Status"
    /\ UNCHANGED <<auxVars, status, statusColor, fieldVars, startVars, running, closeVars>>

\* Status: the value `return d.status` yields when it is evaluated now.
Status == status

StatusReturn ==
    /\ readerPc = "Status"
    /\ readerPc' = "idle"
    /\ UNCHANGED <<auxVars, status, statusColor, fieldVars, startVars, running, closeVars>>

SnapshotCall ==
    /\ readerPc = "idle"
    /\ readerPc' = "SnapshotJPG"
    /\ UNCHANGED <<auxVars, status, statusColor, fieldVars, startVars, running, closeVars>>

\* return gocv.IMEncode(".jpg", d.baseImgMatrix)
SnapshotReturn ==
    /\ readerPc = "SnapshotJPG"
    /\ readerPc' = "idle"
    /\ UNCHANGED <<auxVars, status, statusColor, fieldVars, startVars, running, closeVars>>

Next ==
    \/ StartCall
    \/ StartStep
    \/ OnDetectReturn
    \/ CloseCall
    \/ CloseSetStatus
    \/ CloseRelease
    \/ StatusCall
    \/ StatusReturn
    \/ SnapshotCall
    \/ SnapshotReturn

Spec == Init /\ [][Next]_vars

TypeOK ==
    /\ status \in {DetectorStatusReady, DetectorStatusMotionDetected, DetectorStatusClosed}
    /\ statusColor \in {statusReadyColor, statusMotionDetectedColor}
    /\ startPc \in LoopPcs \cup {"idle", "ret_err", "ret_nil", "crashed"}
    /\ reads \in 0..MaxReads
    /\ contours \in ContourSeqs
    /\ closePc \in ResourceSet \cup {"idle", "status", "done"}
    /\ logged \in 0..Len(Resources)
    /\ readerPc \in {"idle", "Status", "SnapshotJPG"}
    /\ appliedId \in 0..reads
    /\ minDiffContourArea \in {NotSensitive, DefaultSensitive, VerySensitive}
\* ------------------------------------------------ notify-by-email example
\* The example registers onDetect with the detector, which starts it on a new
\* goroutine for every qualifying region (`go d.onDetect()`).  The steps below
\* are those goroutines, interleaved, over the package variable lastMail.
detectorVars ==
    <<status, statusColor, fieldVars, startVars, running, closeVars, readerVars>>

\* The wall clock advances (five seconds at a time, up to MaxMailTime).
MailTick ==
    /\ mailNow < MaxMailTime
    /\ mailNow' = mailNow + 5
    /\ UNCHANGED <<detectorVars, envVars, policy, lastMail, mailPc, mails>>

\* findAndDrawContours: `go d.onDetect()` for one more qualifying region.
MailDispatch ==
    \E i \in 1..MaxMailCallbacks :
        /\ mailPc[i] \in {"none", "done"}
        /\ mailPc' = [mailPc EXCEPT ![i] = "test"]
        /\ UNCHANGED <<detectorVars, envVars, policy, mailNow, lastMail, mails>>

\* time.Now().After(lastMail.Add(15 * time.Second))
MailDue(now, last) == now > last + MailCooldown

\* onDetect: the test of the if statement.
MailTest ==
    \E i \in 1..MaxMailCallbacks :
        /\ mailPc[i] = "test"
        /\ mailPc' = [mailPc EXCEPT ![i] = IF MailDue(mailNow, lastMail)
                                          THEN "stamp" ELSE "done"]
        /\ UNCHANGED <<detectorVars, envVars, policy, mailNow, lastMail, mails>>

\* onDetect: lastMail = time.Now().  The goroutine then enters
\* notifyMeByEmail, which blocks in smtp.SendMail while the clock and the
\* other goroutines go on.
MailStamp ==
    \E i \in 1..MaxMailCallbacks :
        /\ mailPc[i] = "stamp"
        /\ lastMail' = mailNow
        /\ mailPc' = [mailPc EXCEPT ![i] = "send"]
        /\ UNCHANGED <<detectorVars, envVars, policy, mailNow, mails>>

\* onDetect: notifyMeByEmail(...) returns.  smtp.SendMail either delivered the
\* email, at the present time, or failed; onDetect drops the error, and
\* lastMail keeps the value written before the call in both cases.
MailSend ==
    \E i \in 1..MaxMailCallbacks, sent \in BOOLEAN :
        /\ mailPc[i] = "send"
        /\ mails' = IF sent THEN Append(mails, mailNow) ELSE mails
        /\ mailPc' = [mailPc EXCEPT ![i] = "done"]
        /\ UNCHANGED <<detectorVars, envVars, policy, mailNow, lastMail>>

NextMail ==
    \/ MailTick
    \/ MailDispatch
    \/ MailTest
    \/ MailStamp
    \/ MailSend

InitSpecMail ==
    /\ InitDetector
    /\ onDetect = TRUE
    /\ device = "any"
    /\ keyboard = "any"
    /\ policy = NoPolicy
    /\ InitMail

SpecMail == InitSpecMail /\ [][NextMail]_vars

\* ------------------------------------------------------ detection policy
\* The test of findAndDrawContours applied to one region area under two
\* thresholds, the inputs drawn from the presets and the areas around them.
PolicyThresholds == {VerySensitive, DefaultSensitive, NotSensitive}

PolicyAreas == {t + d : t \in PolicyThresholds, d \in {0 - 1, 0, 1}}

InitSpecPolicy ==
    /\ InitDetector
    /\ onDetect = FALSE
    /\ device = "any"
    /\ keyboard = "any"
    /\ policy \in [t1 : PolicyThresholds, t2 : PolicyThresholds, area : PolicyAreas,
                   done : {FALSE}, q1 : {FALSE}, q2 : {FALSE}]
    /\ InitMail

PolicyApply ==
    /\ ~policy.done
    /\ policy' = [policy EXCEPT !.done = TRUE,
                                !.q1 = Qualifies(policy.area, policy.t1),
                                !.q2 = Qualifies(policy.area, policy.t2)]
    /\ UNCHANGED <<detectorVars, envVars, mailVars>>

SpecPolicy == InitSpecPolicy /\ [][PolicyApply]_vars

\* ----------------------------------------------------- end-to-end scenario
\* A detector as NewMotionDetector builds it, with a counting callback, fed
\* the frames of E2E while another goroutine calls Status and SnapshotJPG.
\* No callback goroutine is retired here, so `running` is the callback count.
InitSpecE2E ==
    /\ InitDetector
    /\ onDetect = TRUE
    /\ device = "e2e"
    /\ keyboard = "quiet"
    /\ policy = NoPolicy
    /\ InitMail

NextE2E ==
    \/ StartCall
    \/ ReadFrame
    \/ SetReady
    \/ PrepareApply
    \/ PrepareThreshold
    \/ PrepareDilate
    \/ FindContours
    \/ Contour
    \/ Display
    \/ StatusCall
    \/ StatusReturn
    \/ SnapshotCall
    \/ SnapshotReturn

SpecE2E == InitSpecE2E /\ [][NextE2E]_vars

\* ------------------------------------------------------------ termination
\* Start alone, against a frame source that delivers only non-empty frames
\* until it closes, or only empty frames for ever, and a keyboard on which the
\* escape key is pressed at some point or never.
InitSpecLive ==
    /\ InitDetector
    /\ onDetect \in BOOLEAN
    /\ device \in {"frames", "empties", "closed"}
    /\ keyboard \in {"quiet", "escape"}
    /\ policy = NoPolicy
    /\ InitMail

\* The device is closed or unplugged: every later camera.Read reports not-ok.
DeviceCloses ==
    /\ device = "frames"
    /\ device' = "closed"
    /\ UNCHANGED <<detectorVars, keyboard, policy, mailVars>>

\* The user presses the escape key: every later WaitKey returns 27.
PressEscape ==
    /\ keyboard = "quiet"
    /\ keyboard' = "escape"
    /\ UNCHANGED <<detectorVars, device, policy, mailVars>>

\* The steps of the goroutine that runs Start; camera.Read and WaitKey(1)
\* return, and the Go scheduler keeps running a runnable goroutine.
StartLive ==
    \/ StartCall
    \/ ReadFrame
    \/ SetReady
    \/ PrepareApply
    \/ PrepareThreshold
    \/ PrepareDilate
    \/ FindContours
    \/ Contour
    \/ Display

NextLive ==
    \/ StartLive
    \/ OnDetectReturn
    \/ DeviceCloses
    \/ PressEscape

SpecLive == InitSpecLive /\ [][NextLive]_vars /\ WF_vars(StartLive)

\* ------------------------------------------------- accesses to shared fields
\* The statements the three goroutines are about to execute, as accesses to
\* d.status and to d.baseImgMatrix.  No statement of the package takes a lock.
StartWritesStatus ==
    \/ startPc = "set_ready"
    \/ /\ startPc = "contour"
       /\ idx <= Len(contours)
       /\ Qualifies(contours[idx], minDiffContourArea)

CloseWritesStatus == closePc = "status"

StartWritesFrame ==
    \/ startPc = "read" /\ reads < ReadLimit(device)
    \/ /\ startPc = "contour"
       /\ idx <= Len(contours)
       /\ Qualifies(contours[idx], minDiffContourArea)
    \/ startPc = "display"

CloseWritesFrame == closePc = "baseImgMatrix"

ReaderReadsStatus == readerPc = "Status"

ReaderReadsFrame == readerPc = "SnapshotJPG"

DataRace ==
    \/ ReaderReadsStatus /\ (StartWritesStatus \/ CloseWritesStatus)
    \/ ReaderReadsFrame /\ (StartWritesFrame \/ CloseWritesFrame)

\* Close has executed `d.status = DetectorStatusClosed`.
CloseHasSetStatus == closePc \notin {"idle", "status"}

\* ===================================================================== claims

\* C1: Start returns an error if and only if its latest camera read reported
\* not-ok; after a read that is ok but empty, Start is still inside
\* waitForNextFrame, about to read again, whatever the number of empty frames.
C1_ErrorIffReadNotOk ==
    /\ startPc = "ret_err" <=> ~lastRead.ok
    /\ (lastRead \in ReadResults /\ lastRead.ok /\ lastRead.empty)
          => (startPc \in {"read", "crashed"} /\ emptyRun >= 1)

\* C1 witness: two empty frames in a row were read and Start has not returned.
C1_Witness ==
    /\ startPc = "read"
    /\ emptyRun >= 2
    /\ lastRead.ok /\ lastRead.empty

\* C2 (as claimed): when the frame reaches the display step, status is Motion
\* Detected if a region of the cycle has area >= the threshold and Ready if
\* none has.
C2_StatusAtDisplay ==
    startPc = "display" =>
        status = IF QualifyingCount(contours, minDiffContourArea) > 0
                 THEN DetectorStatusMotionDetected
                 ELSE DetectorStatusReady

\* C3 (as claimed): once Close has set the status, Status() returns Closed in
\* every later state.
C3_ClosedIsTerminal ==
    CloseHasSetStatus => Status = DetectorStatusClosed

\* C4: with a callback registered, the goroutines started for the current
\* frame are as many as the regions processed so far whose area is >= the
\* threshold; at the display step that is every qualifying region of the cycle.
C4_OneCallbackPerQualifyingRegion ==
    (onDetect /\ startPc \in {"contour", "display"}) =>
        dispatched = QualifyingCount(SubSeq(contours, 1, idx - 1), minDiffContourArea)

\* C4 witness: a cycle with two qualifying regions has dispatched two callbacks.
C4_Witness ==
    /\ onDetect
    /\ startPc = "display"
    /\ Len(contours) = 2
    /\ dispatched = 2

\* C5: while callbacks that have not returned exist, the next step of the
\* loop is enabled: Start never waits for a callback.
C5_LoopNeverWaits ==
    (/\ startPc \in LoopPcs
     /\ running > 0
     /\ (startPc = "read" => reads < MaxReads))
        => ENABLED StartStep

\* C5 witness: a later cycle has reached the display step without dispatching
\* anything, while a callback of an earlier cycle still has not returned.
C5_Witness ==
    /\ startPc = "display"
    /\ frames >= 2
    /\ dispatched = 0
    /\ running >= 1

\* C6: the step of the range loop for a region sets Motion Detected and (with
\* a callback registered) starts one goroutine when the area is not less than
\* the threshold, equality included, and changes neither the status nor the
\* callback counts when the area is below it.
C6_InclusiveThreshold ==
    [][(startPc = "contour" /\ idx' = idx + 1) =>
          LET area == contours[idx] IN
            /\ area >= minDiffContourArea =>
                  /\ status' = DetectorStatusMotionDetected
                  /\ onDetect => (dispatched' = dispatched + 1 /\ running' = running + 1)
            /\ area < minDiffContourArea =>
                  /\ status' = status
                  /\ dispatched' = dispatched
                  /\ running' = running]_vars

\* C6 witness: a region whose area equals the threshold has been processed,
\* the status is Motion Detected and a callback was dispatched for it.
C6_Witness ==
    /\ startPc \in {"contour", "display"}
    /\ idx > 1
    /\ contours[idx - 1] = minDiffContourArea
    /\ QualifyingCount(contours, minDiffContourArea) = 1
    /\ status = DetectorStatusMotionDetected
    /\ dispatched = 1

\* C7: Close attempts the release of every resource exactly once, in the order
\* of its statements, whichever of the releases fail.
C7_CloseReleasesAll ==
    /\ closePc = "done" => \A r \in ResourceSet : attempts[r] = 1
    /\ closePc \in ResourceSet =>
          \A i \in 1..Len(Resources) :
              attempts[Resources[i]] = IF i < IndexOf(closePc) THEN 1 ELSE 0
    /\ closePc \in {"idle", "status"} => \A r \in ResourceSet : attempts[r] = 0

\* C7 witness: Close has finished, every release failed, every one was attempted.
C7_Witness ==
    /\ closePc = "done"
    /\ logged = Len(Resources)
    /\ \A r \in ResourceSet : attempts[r] = 1

\* C8 (as claimed): no read of d.status or of the frame buffer by Status() or
\* SnapshotJPG() is concurrent with a write to it by the loop or by Close.
C8_NoDataRace == ~DataRace

\* C9: Start has returned nil exactly when the latest key poll saw key code 27,
\* and the key has been polled once for every non-empty frame whose cycle is
\* over (the frame of the cycle in progress has not been polled for yet).
C9_ReturnsNilOnEscape ==
    /\ startPc = "ret_nil" <=> lastKey = escapeKey
    /\ polls = IF startPc \in LoopPcs \ {"read"} THEN frames - 1 ELSE frames

\* C9 witness: the first cycle saw another key and went on, the second saw 27.
C9_Witness ==
    /\ startPc = "ret_nil"
    /\ polls = 2
    /\ frames = 2

\* C10 (as claimed): once the status is Closed, Start performs no camera read,
\* background-model update, region evaluation, callback dispatch or display step.
C10_NoProcessingAfterClose ==
    [][status = DetectorStatusClosed =>
          /\ reads' = reads
          /\ applied' = applied
          /\ idx' = idx
          /\ polls' = polls
          /\ running' <= running]_vars

\* The color the claim associates with each status.  Close changes no color
\* and can be the first call on a new Detector, which leaves Closed with the
\* Ready color: that is the only color Closed could be tied to.
StatusColorOf(st) ==
    CASE st = DetectorStatusReady -> statusReadyColor
      [] st = DetectorStatusMotionDetected -> statusMotionDetectedColor
      [] OTHER -> statusReadyColor

\* C11 (as claimed): in every reachable state statusColor is the one color
\* associated with the current status.
C11_StatusColorConsistent == statusColor = StatusColorOf(status)

\* C11, the other half of the refutation: Closed is also reached with the
\* Ready color, so no single color goes with Closed.
C11_ClosedNeverReadyColor ==
    ~(status = DetectorStatusClosed /\ statusColor = statusReadyColor)

\* C13: the threshold is NotSensitive (9000), positive, in every reachable
\* state: no operation changes what NewMotionDetector set.
C13_ThresholdFixed ==
    /\ minDiffContourArea = NotSensitive
    /\ minDiffContourArea > 0

\* C13 witness: Start ran cycles with motion and returned, Status and Close
\* were called, and the threshold is still 9000.
C13_Witness ==
    /\ startPc = "ret_nil"
    /\ status = DetectorStatusClosed
    /\ statusColor = statusMotionDetectedColor
    /\ closePc = "done"
    /\ minDiffContourArea = NotSensitive

\* C12 (as claimed): any two emails of the example are at least 15 seconds
\* apart, whatever the interleaving of the onDetect goroutines.
C12_OneMailPerWindow ==
    \A i, j \in 1..Len(mails) :
        i < j => mails[j] - mails[i] >= MailCooldown

\* C14: the presets are strictly ordered, and for thresholds T1 < T2 a region
\* that qualifies under T2 qualifies under T1, while a region with
\* T1 <= area < T2 qualifies under T1 and not under T2.
C14_SensitivityMonotone ==
    /\ VerySensitive < DefaultSensitive
    /\ DefaultSensitive < NotSensitive
    /\ (policy.done /\ policy.t1 < policy.t2) =>
          /\ policy.q2 => policy.q1
          /\ (policy.t1 <= policy.area /\ policy.area < policy.t2) =>
                (policy.q1 /\ ~policy.q2)

\* C14 witness: area 6000 was tested under DefaultSensitive and NotSensitive:
\* it qualifies under the first and not under the second.
C14_Witness ==
    /\ policy.done
    /\ policy.t1 = DefaultSensitive
    /\ policy.t2 = NotSensitive
    /\ policy.area = DefaultSensitive
    /\ policy.q1
    /\ ~policy.q2

\* C15 (as claimed): in the end-to-end scenario the status at the end of each
\* cycle is Ready for frames 1-4, Motion Detected for frame 5 and Ready for
\* the remaining frames, and the callback count at the end is exactly 1.
C15_EndToEnd ==
    /\ startPc = "display" =>
          status = IF frames = E2E.motionFrame
                   THEN DetectorStatusMotionDetected
                   ELSE DetectorStatusReady
    /\ startPc = "ret_err" => running = 1

\* A step taken by the goroutine that runs Start.
StartActs == startPc' # startPc \/ reads' # reads \/ idx' # idx

\* C16: a camera read that reports not-ok makes Start return the error in
\* that same step, with status, statusColor, the background model, the
\* regions, the callbacks and the display untouched; once returned, Start
\* performs nothing more.
C16_ErrorReturnsAtOnce ==
    [][/\ (reads' # reads /\ ~lastRead'.ok) =>
             /\ startPc' = "ret_err"
             /\ status' = status
             /\ statusColor' = statusColor
             /\ applied' = applied
             /\ appliedId' = appliedId
             /\ contours' = contours
             /\ idx' = idx
             /\ dispatched' = dispatched
             /\ running' = running
             /\ polls' = polls
       /\ startPc = "ret_err" =>
             /\ startPc' = "ret_err"
             /\ reads' = reads
             /\ applied' = applied
             /\ idx' = idx
             /\ dispatched' = dispatched
             /\ running' <= running
             /\ polls' = polls]_vars

\* C16 witness: Start returned the error after a cycle that ended with Motion
\* Detected; the failed read left a non-empty matrix; the status is unchanged.
C16_Witness ==
    /\ startPc = "ret_err"
    /\ ~lastRead.ok
    /\ ~lastRead.empty
    /\ frames >= 1
    /\ applied = frames
    /\ polls = frames
    /\ status = DetectorStatusMotionDetected
    /\ statusColor = statusMotionDetectedColor

\* C17 (as claimed): Start changes the status at two points only: it sets
\* Ready (with the Ready color) right after a read that yielded a non-empty
\* frame, and it sets Motion Detected at a qualifying region.  Reads, empty
\* retries included, leave status and statusColor alone, and after every
\* successful non-empty read the status is Ready until a qualifying region of
\* that cycle overwrites it: from the reset to region extraction the status
\* is Ready.
C17_ReadyResetOnlyOnFrame ==
    /\ [](startPc \in {"prepare", "threshold", "dilate", "find"}
             => status = DetectorStatusReady)
    /\ [][StartActs =>
             /\ (startPc' = "set_ready" /\ startPc # "set_ready") =>
                    (reads' = reads + 1 /\ lastRead'.ok /\ ~lastRead'.empty)
             /\ startPc = "set_ready" =>
                    (status' = DetectorStatusReady /\ statusColor' = statusReadyColor)
             /\ startPc = "read" =>
                    (status' = status /\ statusColor' = statusColor)
             /\ (status' # status \/ statusColor' # statusColor) =>
                    \/ startPc = "set_ready"
                    \/ /\ startPc = "contour"
                       /\ Qualifies(contours[idx], minDiffContourArea)
                       /\ status' = DetectorStatusMotionDetected]_vars

\* C17, the state that refutes it: the frame was read and the status reset,
\* Close then wrote Closed, and the loop goes on to prepare the frame.
C17_ClosedAfterReset ==
    /\ startPc \in {"prepare", "threshold", "dilate", "find"}
    /\ status = DetectorStatusClosed
    /\ CloseHasSetStatus

\* C17, the parts that hold.  Status() is being evaluated and yields Ready
\* while the loop is about to process a qualifying region, in a cycle that
\* follows one which ended with Motion Detected.
C17_ReadyInMotionCycle ==
    /\ readerPc = "Status"
    /\ Status = DetectorStatusReady
    /\ startPc = "contour"
    /\ frames >= 2
    /\ Qualifies(contours[idx], minDiffContourArea)

\* Motion Detected persists through two empty reads.
C17_MotionThroughEmptyRetries ==
    /\ startPc = "read"
    /\ emptyRun >= 2
    /\ status = DetectorStatusMotionDetected

\* C19: the steps of a cycle follow one another in the order read, Apply,
\* Threshold, Dilate, region extraction, display; Apply runs once for each
\* non-empty frame, on the frame of the latest read, which succeeded and was
\* not empty, and never on a frame taken before.
C19_PipelineOrder ==
    /\ [](/\ applied = IF startPc \in {"set_ready", "prepare"}
                       THEN frames - 1 ELSE frames
          /\ startPc \in {"threshold", "dilate", "find", "contour", "display"}
                => appliedId = reads)
    /\ [][/\ startPc' # startPc =>
                <<startPc, startPc'>> \in
                    {<<"idle", "read">>, <<"read", "set_ready">>, <<"read", "ret_err">>,
                     <<"read", "crashed">>, <<"set_ready", "prepare">>,
                     <<"prepare", "threshold">>, <<"threshold", "dilate">>,
                     <<"dilate", "find">>, <<"find", "contour">>, <<"find", "display">>,
                     <<"contour", "display">>, <<"display", "read">>,
                     <<"display", "ret_nil">>}
          /\ applied' # applied =>
                /\ startPc = "prepare"
                /\ applied' = applied + 1
                /\ lastRead.ok
                /\ ~lastRead.empty
                /\ appliedId < reads
                /\ appliedId' = reads]_vars

\* C19 witness: the second non-empty frame, read after an empty one, has been
\* applied and has reached the display step; the model was advanced twice.
C19_Witness ==
    /\ startPc = "display"
    /\ reads = 3
    /\ frames = 2
    /\ applied = 2
    /\ appliedId = 3

\* Start has returned.
Returned == startPc \in {"ret_nil", "ret_err"}

\* C18: Start returns nil only after a key poll saw 27 and an error only after
\* a read reported not-ok.  Once the source is closed Start eventually
\* returns, and so it does once the escape key is down while the source
\* delivers non-empty frames (each within the reads the model explores).
\* While the source delivers only empty frames Start stays in
\* waitForNextFrame: it neither returns nor polls the key, pressed or not.
C18_ReturnsOnlyByKeyOrClosure ==
    /\ [](startPc = "ret_nil" => (lastKey = escapeKey /\ polls >= 1))
    /\ [](startPc = "ret_err" => ~lastRead.ok)
    /\ [](startPc \in LoopPcs \cup {"idle", "ret_nil", "ret_err"})
    /\ (device = "closed" /\ reads < MaxReads) ~> Returned
    /\ (device = "frames" /\ keyboard = "escape" /\ reads < MaxReads) ~> Returned
    /\ [](device = "empties" =>
             (startPc \in {"idle", "read"} /\ frames = 0 /\ polls = 0))

\* C18 witness: the escape key was pressed during the second cycle and Start
\* returned nil at its display step.
C18_Witness ==
    /\ startPc = "ret_nil"
    /\ device = "frames"
    /\ frames = 2
    /\ polls = 2

\* C18, second witness: the escape key is down, the source has delivered two
\* empty frames, and Start is still reading.
C18_WitnessEmptyFrames ==
    /\ device = "empties"
    /\ keyboard = "escape"
    /\ startPc = "read"
    /\ emptyRun >= 2
====
